---------------------------- MODULE Spec2Model ----------------------------
(* A model of CARTON's evaluation script, src/task_analysis.py: main() and  *)
(* test(), together with the collaborators it imports from utils            *)
(* (AverageMeter, construct_entity_target, SingleTaskLoss/MultiTaskLoss,    *)
(* Predictor, Scorer), which are modelled from their documented contracts.  *)
EXTENDS Integers, Sequences, FiniteSets, TLC

(***************************************************************************)
(* Bounds of the model.                                                    *)
(***************************************************************************)
\* largest number of examples in a partition (len(val_data.examples))
MaxExamples == 3
\* args.batch_size: the largest number of examples in one batch
BatchSize == 2
\* largest per-batch loss value, in fixed-point units
MaxLoss == 1
\* largest padded target length of a batch (predicate_t.shape[-1])
MaxSeqLen == 2
\* the Predictor's configured maximum number of decoding steps
MaxPositions == 2

(***************************************************************************)
(* Names of the program.                                                   *)
(***************************************************************************)
LOGICAL_FORM == "logical_form"
PREDICATE_POINTER == "predicate_pointer"
TYPE_POINTER == "type_pointer"
ENTITY_POINTER == "entity_pointer"
MULTITASK == "multitask"

\* the four output streams, each with a vocabulary and a target
FourTasks == {LOGICAL_FORM, PREDICATE_POINTER, TYPE_POINTER, ENTITY_POINTER}
\* the values of args.task (the keys of the criterion table, lines 50-56)
Tasks == FourTasks \cup {MULTITASK}

\* the two partitions main() evaluates
Partitions == {"val", "test"}
\* question-type categories attached to the examples (enumerated externally)
Categories == {"A", "B"}

\* The index a vocabulary gives PAD_TOKEN: torchtext puts the specials first,
\* <unk> then <pad>, so PAD is 1 in a field with an unknown token and 0 in a
\* field without one.
\* the vocabulary sets of the model: PAD at 1 in every vocabulary, or at 1 in
\* the logical-form vocabulary and at 0 in the three pointer vocabularies
PadLayouts ==
    { [t \in FourTasks |-> 1],
      [t \in FourTasks |-> IF t = LOGICAL_FORM THEN 1 ELSE 0] }

NoValue == <<>>

\* a freshly constructed AverageMeter
NewMeter == [sum |-> 0, count |-> 0]
\* a ResultsTable entry that does not exist
NoEntry == [present |-> FALSE, acc |-> [t \in FourTasks |-> [m |-> 0, n |-> 0]]]

VARIABLES
    pc,            \* main(): the stage about to run
    tpc,           \* test(): "idle" outside the call, "loop" inside the with-block
    spc,           \* data_score(): "idle" outside the call, "loop" inside it
    task,          \* args.task
    vocabs,        \* vocabs[t].stoi[PAD_TOKEN] for each of the four tasks
    criterion,     \* the criterion object: its class and its ignore_index
    data,          \* len(val_data.examples), len(test_data.examples)
    training,      \* model.training
    loaded,        \* model.load_state_dict has succeeded
    grad_enabled,  \* torch.is_grad_enabled()
    prev_grad,     \* the mode torch.no_grad() saved on entry
    entry_mode,    \* the mode in force when test() was last entered
    remaining,     \* examples the loader of the running test() has yet to deliver
    losses,        \* test(): the AverageMeter
    batches,       \* batches the loader delivered to the running test()
    updates,       \* the calls losses.update(value, weight) made
    val_loss,      \* main(): val_loss
    test_loss,     \* main(): test_loss
    loss_passes,   \* how many times test() returned, per partition
    results,       \* test_scorer.results
    examples,      \* the examples data_score has processed
    scored_parts,  \* the partitions data_score was called with
    written,       \* write_results() was called
    logged,        \* the categories whose results main() logged
    error,         \* the error that aborted the run
    p_state,       \* Predictor: "START", "DECODE" or "STOP"
    p_in,          \* Predictor: the decoder input, the start marker first
    dec,           \* Predictor: the symbols emitted so far, per stream
    p_out          \* Predictor: the four sequences returned

\* the state of the Predictor
pvars == <<p_state, p_in, dec, p_out>>

vars == <<pc, tpc, spc, task, vocabs, criterion, data, training, loaded,
          grad_enabled, prev_grad, entry_mode, remaining, losses, batches,
          updates, val_loss, test_loss, loss_passes, results, examples,
          scored_parts, written, logged, error, pvars>>

\* the state of main(), test() and the Scorer
mvars == <<pc, tpc, spc, task, vocabs, criterion, data, training, loaded,
           grad_enabled, prev_grad, entry_mode, remaining, losses, batches,
           updates, val_loss, test_loss, loss_passes, results, examples,
           scored_parts, written, logged, error>>

(***************************************************************************)
(* main(): the order of its stages, lines 39-96.                           *)
(***************************************************************************)
\* write_results() called before data_score
StageOrderWriteFirst ==
    << "setup", "load_checkpoint", "loaders", "val_loss", "test_loss",
       "write_results", "data_score", "log_results", "done" >>

\* the checkpoint loaded after the first loss pass
StageOrderLateLoad ==
    << "setup", "loaders", "val_loss", "load_checkpoint", "test_loss",
       "data_score", "write_results", "log_results", "done" >>

StageOrder ==
    << "setup", "load_checkpoint", "loaders", "val_loss", "test_loss",
       "data_score", "write_results", "log_results", "done" >>

RECURSIVE IndexOf(_, _, _)
IndexOf(seq, x, i) ==
    IF i > Len(seq) THEN 0
    ELSE IF seq[i] = x THEN i ELSE IndexOf(seq, x, i + 1)

\* the stage main() runs after `stage`
After(stage) ==
    LET i == IndexOf(StageOrder, stage, 1)
    IN  IF i = 0 \/ i = Len(StageOrder) THEN "done" ELSE StageOrder[i + 1]

\* the partition whose loader and helper a call of test() is given
PartitionOf(stage) == IF stage = "val_loss" THEN "val" ELSE "test"

\* data_score given the validation partition
ScoredPartitionVal == "val"

\* the partition whose examples and helper data_score is given, line 87
ScoredPartition == "test"


(***************************************************************************)
(* Collaborators.                                                          *)
(***************************************************************************)
Min(a, b) == IF a < b THEN a ELSE b

\* the criterion main() constructs, lines 50-56: the class is chosen by
\* args.task, the ignore_index is the logical-form vocabulary's PAD index
BuildCriterion(t, v) ==
    [ kind |-> IF t = MULTITASK THEN "MultiTaskLoss" ELSE "SingleTaskLoss",
      ignore_index |-> v[LOGICAL_FORM] ]

\* the targets the criterion is applied to, line 125
CriterionTargets(t) == IF t = MULTITASK THEN FourTasks ELSE {t}

\* SingleTaskLoss: the positions of a flattened target that contribute to the
\* loss are those whose index differs from ignore_index
RECURSIVE CountedPositions(_, _)
CountedPositions(target, ignore_index) ==
    IF target = <<>> THEN 0
    ELSE (IF Head(target) = ignore_index THEN 0 ELSE 1)
         + CountedPositions(Tail(target), ignore_index)

\* a flattened target of task t in which every position is padding
AllPadTarget(t, len) == [i \in 1..len |-> vocabs[t]]

\* AverageMeter.update(value, weight)
MeterUpdate(m, value, weight) ==
    [sum |-> m.sum + value * weight, count |-> m.count + weight]

\* AverageMeter.avg, as the fraction <<numerator, denominator>>
MeterAvg(m) == IF m.count = 0 THEN <<0, 1>> ELSE <<m.sum, m.count>>

\* every batch weighted 1
RecordWeightOne(batch) == 1

\* every batch weighted by its padded sequence length
RecordWeightPadded(batch) == batch.len

\* the weight test() records a batch's loss with, line 128: input.size(0)
RecordWeight(batch) == batch.n

\* the gradient mode left disabled
NoGradExitLeak(prev) == FALSE

\* torch.no_grad().__exit__: the saved mode is put back
NoGradExit(prev) == prev

\* Scorer: one example of category cat, with match[t] telling whether the
\* decoded sequence of task t equals gold
ScorerUpdate(res, cat, match) ==
    [res EXCEPT ![cat] =
        [ present |-> TRUE,
          acc |-> [t \in FourTasks |->
                     [ m |-> res[cat].acc[t].m + (IF match[t] THEN 1 ELSE 0),
                       n |-> res[cat].acc[t].n + 1 ]] ]]

\* every category logged, with or without an entry
LoggedAllCategories(res) == Categories

\* the categories main() logs, lines 91-96: every key of results
LoggedCategories(res) == {c \in Categories : res[c].present}

(***************************************************************************)
(* Predictor: greedy decoding of one example.                              *)
(***************************************************************************)
START_TOKEN == "[START]"
END_TOKEN == "[END]"
\* what the logical-form stream can emit, and what a pointer stream can emit
LfSymbols == {"find", "filter", END_TOKEN}
PointerSymbols == {"0", "1"}

Streams == {"lf", "pp", "tp", "ep"}
NoStreams == [s \in Streams |-> <<>>]

RECURSIVE EndPosition(_, _)
\* the first position of the end marker in seq from position i on, or
\* Len(seq) + 1 when there is none
EndPosition(seq, i) ==
    IF i > Len(seq) THEN i
    ELSE IF seq[i] = END_TOKEN THEN i ELSE EndPosition(seq, i + 1)

\* the four sequences, each cut at, and without, the end marker of the
\* logical-form stream
Truncated(d) ==
    LET k == EndPosition(d["lf"], 1) - 1
    IN  [s \in Streams |-> SubSeq(d[s], 1, Min(k, Len(d[s])))]

\* decoding with no bound on its length
StepAlwaysAllowed == TRUE

\* another decoding step may be taken: the maximum length is not reached
StepAllowed == Len(dec["lf"]) < MaxPositions

\* the last step produced the end marker on the logical-form stream
EndProduced ==
    /\ dec["lf"] # <<>>
    /\ dec["lf"][Len(dec["lf"])] = END_TOKEN

\* START: the decoder is seeded with the start-of-sequence marker
PredictStart ==
    /\ p_state = "START"
    /\ p_in' = <<START_TOKEN>>
    /\ dec' = NoStreams
    /\ p_out' = NoValue
    /\ p_state' = "DECODE"
    /\ UNCHANGED mvars

\* one step: the model emits one symbol per stream (whatever the model
\* computes), the logical-form symbol is fed back as the next input
PredictStep ==
    /\ p_state = "DECODE"
    /\ ~EndProduced
    /\ StepAllowed
    /\ \E lf \in LfSymbols, pp \in PointerSymbols, tp \in PointerSymbols,
          ep \in PointerSymbols :
          /\ dec' = [dec EXCEPT !["lf"] = Append(@, lf), !["pp"] = Append(@, pp),
                                !["tp"] = Append(@, tp), !["ep"] = Append(@, ep)]
          /\ p_in' = Append(p_in, lf)
    /\ UNCHANGED <<p_state, p_out>>
    /\ UNCHANGED mvars

\* STOP: the end marker was produced or the maximum length is reached
PredictStop ==
    /\ p_state = "DECODE"
    /\ EndProduced \/ ~StepAllowed
    /\ p_out' = Truncated(dec)
    /\ p_state' = "STOP"
    /\ UNCHANGED <<p_in, dec>>
    /\ UNCHANGED mvars

(***************************************************************************)
(* The state at the start of main().                                       *)
(***************************************************************************)
Init ==
    /\ pc = StageOrder[1]
    /\ tpc = "idle"
    /\ spc = "idle"
    /\ task \in Tasks
    /\ vocabs \in PadLayouts
    /\ data \in [Partitions -> 0..MaxExamples]
    /\ criterion = [kind |-> "none", ignore_index |-> 0]
    /\ training = TRUE
    /\ loaded = FALSE
    /\ grad_enabled = TRUE
    /\ prev_grad = TRUE
    /\ entry_mode = [training |-> TRUE, grad |-> TRUE]
    /\ remaining = 0
    /\ losses = NewMeter
    /\ batches = <<>>
    /\ updates = <<>>
    /\ val_loss = NoValue
    /\ test_loss = NoValue
    /\ loss_passes = [p \in Partitions |-> 0]
    /\ results = [c \in Categories |-> NoEntry]
    /\ examples = <<>>
    /\ scored_parts = {}
    /\ written = FALSE
    /\ logged = {}
    /\ error = "none"
    /\ p_state = "START"
    /\ p_in = <<>>
    /\ dec = NoStreams
    /\ p_out = NoValue

(***************************************************************************)
(* main(), lines 39-96.                                                    *)
(***************************************************************************)
\* lines 40-56: the data, the model (a new module is in training mode) and
\* the criterion
Setup ==
    /\ pc = "setup"
    /\ criterion' = BuildCriterion(task, vocabs)
    /\ training' = TRUE
    /\ pc' = After(pc)
    /\ UNCHANGED <<tpc, spc, task, vocabs, data, loaded, grad_enabled,
                   prev_grad, entry_mode, remaining, losses, batches, updates,
                   val_loss, test_loss, loss_passes, results, examples,
                   scored_parts, written, logged, error>>
    /\ UNCHANGED pvars

\* lines 58-65, the checkpoint fits the model
LoadCheckpoint ==
    /\ pc = "load_checkpoint"
    /\ loaded' = TRUE
    /\ pc' = After(pc)
    /\ UNCHANGED <<tpc, spc, task, vocabs, criterion, data, training,
                   grad_enabled, prev_grad, entry_mode, remaining, losses,
                   batches, updates, val_loss, test_loss, loss_passes, results,
                   examples, scored_parts, written, logged, error>>
    /\ UNCHANGED pvars

\* lines 58-64, torch.load or load_state_dict raises: nothing catches it
LoadCheckpointFail ==
    /\ pc = "load_checkpoint"
    /\ error' = "CheckpointLoadError"
    /\ pc' = "aborted"
    /\ UNCHANGED <<tpc, spc, task, vocabs, criterion, data, training, loaded,
                   grad_enabled, prev_grad, entry_mode, remaining, losses,
                   batches, updates, val_loss, test_loss, loss_passes, results,
                   examples, scored_parts, written, logged>>
    /\ UNCHANGED pvars

\* lines 67-76
PrepareLoaders ==
    /\ pc = "loaders"
    /\ pc' = After(pc)
    /\ UNCHANGED <<tpc, spc, task, vocabs, criterion, data, training, loaded,
                   grad_enabled, prev_grad, entry_mode, remaining, losses,
                   batches, updates, val_loss, test_loss, loss_passes, results,
                   examples, scored_parts, written, logged, error>>
    /\ UNCHANGED pvars

(***************************************************************************)
(* test(), lines 98-130, called at lines 79 and 81.                        *)
(***************************************************************************)
\* lines 99-104: a new meter, model.eval(), the no_grad block is entered.
\* A loss already logged (line 80) is not read again.
TestEnter ==
    /\ pc \in {"val_loss", "test_loss"}
    /\ tpc = "idle"
    /\ entry_mode' = [training |-> training, grad |-> grad_enabled]
    /\ losses' = NewMeter
    /\ batches' = <<>>
    /\ updates' = <<>>
    /\ training' = FALSE
    /\ prev_grad' = grad_enabled
    /\ grad_enabled' = FALSE
    /\ remaining' = data[PartitionOf(pc)]
    /\ tpc' = "loop"
    /\ val_loss' = NoValue
    /\ test_loss' = NoValue
    /\ UNCHANGED <<pc, spc, task, vocabs, criterion, data, loaded,
                   loss_passes, results, examples, scored_parts, written,
                   logged, error>>
    /\ UNCHANGED pvars

\* lines 105-128, one batch: the targets, the output, the loss, the update
TestBatch ==
    /\ tpc = "loop"
    /\ remaining > 0
    /\ \E n \in 1..Min(BatchSize, remaining), len \in 2..MaxSeqLen,
          l \in 0..MaxLoss :
          LET batch == [n |-> n, len |-> len, loss |-> l, ok |-> TRUE]
          IN  /\ batches' = Append(batches, batch)
              /\ losses' = MeterUpdate(losses, l, RecordWeight(batch))
              /\ updates' = Append(updates,
                                   [value |-> l, weight |-> RecordWeight(batch)])
              /\ remaining' = remaining - n
    /\ UNCHANGED <<pc, tpc, spc, task, vocabs, criterion, data, training,
                   loaded, grad_enabled, prev_grad, entry_mode, val_loss,
                   test_loss, loss_passes, results, examples, scored_parts,
                   written, logged, error>>
    /\ UNCHANGED pvars

\* the failing batch skipped and the loop continued
TestBatchFailSkip ==
    /\ tpc = "loop"
    /\ remaining > 0
    /\ \E n \in 1..Min(BatchSize, remaining) :
          /\ batches' = Append(batches,
                               [n |-> n, len |-> 2, loss |-> 0, ok |-> FALSE])
          /\ remaining' = remaining - n
    /\ UNCHANGED <<pc, tpc, spc, task, vocabs, criterion, data, training,
                   loaded, grad_enabled, prev_grad, entry_mode, losses,
                   updates, val_loss, test_loss, loss_passes, results,
                   examples, scored_parts, written, logged, error>>
    /\ UNCHANGED pvars

\* lines 105-125, one batch in which construct_entity_target (an id absent
\* from the helper store) or the criterion (a shape mismatch) raises: the
\* with-block is left, nothing in test() or main() catches the error
TestBatchFail ==
    /\ tpc = "loop"
    /\ remaining > 0
    /\ \E n \in 1..Min(BatchSize, remaining),
          e \in {"AlignmentError", "ShapeMismatchError"} :
          /\ batches' = Append(batches,
                               [n |-> n, len |-> 2, loss |-> 0, ok |-> FALSE])
          /\ remaining' = remaining - n
          /\ error' = e
    /\ grad_enabled' = NoGradExit(prev_grad)
    /\ tpc' = "idle"
    /\ pc' = "aborted"
    /\ UNCHANGED <<spc, task, vocabs, criterion, data, training, loaded,
                   prev_grad, entry_mode, losses, updates, val_loss, test_loss,
                   loss_passes, results, examples, scored_parts, written,
                   logged>>
    /\ UNCHANGED pvars

\* line 105 with the loader exhausted, line 130, and the caller's lines
\* 79-80 or 81-82
TestReturn ==
    /\ tpc = "loop"
    /\ remaining = 0
    /\ grad_enabled' = NoGradExit(prev_grad)
    /\ tpc' = "idle"
    /\ IF pc = "val_loss"
         THEN val_loss' = MeterAvg(losses) /\ UNCHANGED test_loss
         ELSE test_loss' = MeterAvg(losses) /\ UNCHANGED val_loss
    /\ loss_passes' = [loss_passes EXCEPT ![PartitionOf(pc)] = @ + 1]
    /\ pc' = After(pc)
    /\ UNCHANGED <<spc, task, vocabs, criterion, data, training, loaded,
                   prev_grad, entry_mode, remaining, losses, batches, updates,
                   results, examples, scored_parts, written, logged, error>>
    /\ UNCHANGED pvars

(***************************************************************************)
(* Scoring and reporting, lines 84-96.                                     *)
(***************************************************************************)
\* decoded-against-gold outcomes of one example
MatchOutcomes ==
    { [t \in FourTasks |-> TRUE],
      [t \in FourTasks |-> FALSE],
      [t \in FourTasks |-> t = LOGICAL_FORM] }

\* lines 85-87: the Predictor, the Scorer, data_score is entered.  The loss
\* passes' values are not read from here on.
DataScoreEnter ==
    /\ pc = "data_score"
    /\ spc = "idle"
    /\ results' = [c \in Categories |-> NoEntry]
    /\ examples' = <<>>
    /\ scored_parts' = scored_parts \cup {ScoredPartition}
    /\ spc' = "loop"
    /\ losses' = NewMeter
    /\ batches' = <<>>
    /\ updates' = <<>>
    /\ val_loss' = NoValue
    /\ test_loss' = NoValue
    /\ UNCHANGED <<pc, tpc, task, vocabs, criterion, data, training, loaded,
                   grad_enabled, prev_grad, entry_mode, remaining, loss_passes,
                   written, logged, error>>
    /\ UNCHANGED pvars

\* data_score, one example: predict, compare with gold, record
DataScoreExample ==
    /\ spc = "loop"
    /\ Len(examples) < data[ScoredPartition]
    /\ \E cat \in Categories, match \in MatchOutcomes :
          /\ examples' = Append(examples, [cat |-> cat, match |-> match])
          /\ results' = ScorerUpdate(results, cat, match)
    /\ UNCHANGED <<pc, tpc, spc, task, vocabs, criterion, data, training,
                   loaded, grad_enabled, prev_grad, entry_mode, remaining,
                   losses, batches, updates, val_loss, test_loss, loss_passes,
                   scored_parts, written, logged, error>>
    /\ UNCHANGED pvars

\* data_score, one example without its gold annotation: fatal
DataScoreFail ==
    /\ spc = "loop"
    /\ Len(examples) < data[ScoredPartition]
    /\ error' = "MissingGoldError"
    /\ spc' = "idle"
    /\ pc' = "aborted"
    /\ UNCHANGED <<tpc, task, vocabs, criterion, data, training, loaded,
                   grad_enabled, prev_grad, entry_mode, remaining, losses,
                   batches, updates, val_loss, test_loss, loss_passes, results,
                   examples, scored_parts, written, logged>>
    /\ UNCHANGED pvars

\* data_score returns, every example processed
DataScoreReturn ==
    /\ spc = "loop"
    /\ Len(examples) = data[ScoredPartition]
    /\ spc' = "idle"
    /\ pc' = After(pc)
    /\ UNCHANGED <<tpc, task, vocabs, criterion, data, training, loaded,
                   grad_enabled, prev_grad, entry_mode, remaining, losses,
                   batches, updates, val_loss, test_loss, loss_passes, results,
                   examples, scored_parts, written, logged, error>>
    /\ UNCHANGED pvars

\* line 88
WriteResults ==
    /\ pc = "write_results"
    /\ written' = TRUE
    /\ pc' = After(pc)
    /\ UNCHANGED <<tpc, spc, task, vocabs, criterion, data, training, loaded,
                   grad_enabled, prev_grad, entry_mode, remaining, losses,
                   batches, updates, val_loss, test_loss, loss_passes, results,
                   examples, scored_parts, logged, error>>
    /\ UNCHANGED pvars

\* lines 90-96
LogResults ==
    /\ pc = "log_results"
    /\ logged' = LoggedCategories(results)
    /\ pc' = After(pc)
    /\ UNCHANGED <<tpc, spc, task, vocabs, criterion, data, training, loaded,
                   grad_enabled, prev_grad, entry_mode, remaining, losses,
                   batches, updates, val_loss, test_loss, loss_passes, results,
                   examples, scored_parts, written, error>>
    /\ UNCHANGED pvars

Next ==
    \/ Setup
    \/ LoadCheckpoint
    \/ LoadCheckpointFail
    \/ PrepareLoaders
    \/ TestEnter
    \/ TestBatch
    \/ TestBatchFail
    \/ TestReturn
    \/ DataScoreEnter
    \/ DataScoreExample
    \/ DataScoreFail
    \/ DataScoreReturn
    \/ WriteResults
    \/ LogResults

Spec == Init /\ [][Next]_vars

\* the Predictor decoding one example, whatever the model emits
PredictorNext ==
    \/ PredictStart
    \/ PredictStep
    \/ PredictStop

\* one example: the state of main() plays no part in the decoding
PredictorInit ==
    /\ Init
    /\ task = MULTITASK
    /\ vocabs = [t \in FourTasks |-> 1]
    /\ data = [p \in Partitions |-> 1]

SpecPredictor == PredictorInit /\ [][PredictorNext]_vars

(***************************************************************************)
(* Properties.                                                             *)
(***************************************************************************)
BatchErrors == {"AlignmentError", "ShapeMismatchError"}

\* a fraction <<a, b>> equals a fraction <<c, d>>
RatEq(x, y) == x[1] * y[2] = y[1] * x[2]

RECURSIVE SumProducts(_)
\* the sum of value * weight over a sequence of <<value, weight>> pairs
SumProducts(pairs) ==
    IF pairs = <<>> THEN 0
    ELSE Head(pairs)[1] * Head(pairs)[2] + SumProducts(Tail(pairs))

RECURSIVE SumWeights(_)
SumWeights(pairs) ==
    IF pairs = <<>> THEN 0 ELSE Head(pairs)[2] + SumWeights(Tail(pairs))

\* the weighted mean of a sequence of <<value, weight>> pairs, 0 when the
\* weights sum to 0
WeightedMean(pairs) ==
    IF SumWeights(pairs) = 0 THEN <<0, 1>>
    ELSE <<SumProducts(pairs), SumWeights(pairs)>>

\* the batches the running (or last) loss pass processed to the end
OkBatches == SelectSeq(batches, LAMBDA b : b.ok)
\* their <<loss, number of examples>> pairs
BatchPairs == [i \in 1..Len(OkBatches) |-> <<OkBatches[i].loss, OkBatches[i].n>>]
\* the <<value, weight>> pairs of the update calls made
UpdatePairs == [i \in 1..Len(updates) |-> <<updates[i].value, updates[i].weight>>]

\* a call of test() has been entered
TestEntered ==
    \/ tpc = "loop"
    \/ loss_passes["val"] + loss_passes["test"] > 0
    \/ error \in BatchErrors

\* the partition of the loss pass that is running, or ran last
PassPartition == IF loss_passes["val"] = 0 THEN "val" ELSE "test"

\* N: the processed examples of category c; M: those whose task t matched
CountN(c) == Cardinality({i \in 1..Len(examples) : examples[i].cat = c})
CountM(c, t) ==
    Cardinality({i \in 1..Len(examples) :
                    examples[i].cat = c /\ examples[i].match[t]})

\* C1: write_results() is called only after both loss passes have returned
\* and data_score has returned normally with every example of its partition
\* processed; a run that aborted has not called write_results().
C1_WriteOnlyAfterCompletePass ==
    /\ written =>
          /\ loss_passes["val"] >= 1
          /\ loss_passes["test"] >= 1
          /\ ScoredPartition \in scored_parts
          /\ spc = "idle"
          /\ Len(examples) = data[ScoredPartition]
          /\ error = "none"
    /\ logged # {} => written
    /\ pc = "aborted" => ~written /\ logged = {}

C1_Witness ==
    /\ written
    /\ Len(examples) >= 2
    /\ data["val"] >= 1

\* C2 as claimed: outside test() the model's training/evaluation flag and
\* the gradient mode are those in force when test() was entered.
C2_ModeRestored ==
    tpc = "idle" =>
        /\ training = entry_mode.training
        /\ grad_enabled = entry_mode.grad

\* C2 as amended: once test() has been left, by return or by an error, the
\* gradient mode is the one in force when it was entered, and the model is
\* in evaluation mode whatever it was in before.
C2_GradModeRestored ==
    (tpc = "idle" /\ TestEntered) =>
        /\ grad_enabled = entry_mode.grad
        /\ training = FALSE

C2_Witness ==
    /\ tpc = "idle"
    /\ error \in BatchErrors
    /\ entry_mode.grad
    /\ grad_enabled

\* C3: when loading the checkpoint failed, no evaluation work has begun: no
\* batch was drawn, no loss computed or accumulated, test() never entered,
\* no Predictor/Scorer call made, nothing written or logged.
C3_CheckpointFailureBeforeWork ==
    error = "CheckpointLoadError" =>
        /\ pc = "aborted"
        /\ ~loaded
        /\ ~TestEntered
        /\ training
        /\ batches = <<>>
        /\ updates = <<>>
        /\ losses = NewMeter
        /\ val_loss = NoValue /\ test_loss = NoValue
        /\ scored_parts = {}
        /\ examples = <<>>
        /\ ~written
        /\ logged = {}

C3_Witness ==
    /\ error = "CheckpointLoadError"
    /\ data["val"] >= 1
    /\ data["test"] >= 1

\* C4: a batch on which the target construction fails is the last batch of
\* the run: it makes no update, test() returns no average, the run is
\* aborted and no later stage (the other loss pass, scoring, write_results,
\* logging) runs.
C4_AlignmentFailureIsFatal ==
    \A i \in 1..Len(batches) :
        ~batches[i].ok =>
            /\ i = Len(batches)
            /\ pc = "aborted"
            /\ tpc = "idle"
            /\ error \in BatchErrors
            /\ Len(updates) = Len(batches) - 1
            /\ losses.count = SumWeights(BatchPairs)
            /\ val_loss = NoValue /\ test_loss = NoValue
            /\ loss_passes[PassPartition] = 0
            /\ loss_passes["test"] = 0
            /\ scored_parts = {}
            /\ examples = <<>>
            /\ ~written
            /\ logged = {}
            /\ ~ENABLED Next

C4_Witness ==
    /\ error = "AlignmentError"
    /\ Len(batches) >= 2
    /\ loss_passes["val"] = 0

\* C5: the meter's average is the weighted mean of the updates made (0 when
\* the weights sum to 0), and the value test() returns is the mean of the
\* per-batch losses weighted by the batches' numbers of examples, 0 for a
\* loader that delivers no batch.
C5_AverageIsWeightedMean ==
    /\ RatEq(MeterAvg(losses), WeightedMean(UpdatePairs))
    /\ updates = <<>> => MeterAvg(losses)[1] = 0
    /\ \A ret \in {val_loss, test_loss} :
          ret # NoValue =>
              /\ RatEq(ret, WeightedMean(BatchPairs))
              /\ batches = <<>> => ret[1] = 0

C5_Witness ==
    /\ val_loss # NoValue
    /\ Len(batches) = 2
    /\ batches[1].n # batches[2].n
    /\ batches[1].loss # batches[2].loss

C5_WitnessEmpty ==
    /\ val_loss # NoValue
    /\ batches = <<>>

\* C6: every batch processed makes exactly one update, weighted by the
\* batch's number of examples; after a complete pass the count is the number
\* of examples of the partition.
C6_WeightIsBatchSize ==
    /\ Len(updates) = Len(OkBatches)
    /\ \A i \in 1..Len(updates) :
          /\ updates[i].weight = OkBatches[i].n
          /\ updates[i].value = OkBatches[i].loss
    /\ val_loss # NoValue => losses.count = data["val"]
    /\ test_loss # NoValue => losses.count = data["test"]

C6_Witness ==
    /\ test_loss # NoValue
    /\ Len(updates) = 2
    /\ updates[1].weight = 1
    /\ updates[2].weight = 2
    /\ batches[1].len # batches[1].n

\* C7: the decoder takes at most MaxPositions steps, it stops once they are
\* taken, and the four sequences it returns have one length, at most
\* MaxPositions, and hold no end marker.
C7_DecodingBounded ==
    /\ Len(dec["lf"]) <= MaxPositions
    /\ Len(p_in) <= MaxPositions + 1
    /\ p_state = "DECODE" => ENABLED PredictorNext
    /\ p_state = "STOP" =>
          /\ p_out # NoValue
          /\ \A s \in Streams :
                /\ Len(p_out[s]) = Len(p_out["lf"])
                /\ Len(p_out[s]) <= MaxPositions
                /\ \A i \in 1..Len(p_out[s]) : p_out[s][i] # END_TOKEN

C7_Witness ==
    /\ p_state = "STOP"
    /\ Len(p_out["lf"]) = MaxPositions

\* C8: a category has an entry exactly when an example of it was processed;
\* its entry holds, for every task, M matches out of N examples; main() logs
\* the categories with N >= 1 and no other.
C8_AccuracyIsMOverN ==
    /\ \A c \in Categories :
          /\ results[c].present <=> CountN(c) >= 1
          /\ results[c].present =>
                \A t \in FourTasks :
                    results[c].acc[t] = [m |-> CountM(c, t), n |-> CountN(c)]
    /\ logged \subseteq {c \in Categories : CountN(c) >= 1}
    /\ pc = "done" => logged = {c \in Categories : CountN(c) >= 1}

C8_Witness ==
    /\ pc = "done"
    /\ results["A"].acc[LOGICAL_FORM] = [m |-> 2, n |-> 3]
    /\ ~results["B"].present
    /\ logged = {"A"}

\* C9 as claimed: a completed run has passed the loss over both partitions
\* once and has scored both partitions.
C9_BothPartitionsScored ==
    pc \in {"log_results", "done"} =>
        /\ \A p \in Partitions : loss_passes[p] = 1
        /\ scored_parts = Partitions

\* C9 as amended: a completed run has passed the loss over both partitions
\* once and has scored the test partition only.
C9_OnlyTestScored ==
    pc \in {"log_results", "done"} =>
        /\ \A p \in Partitions : loss_passes[p] = 1
        /\ scored_parts = {"test"}
        /\ Len(examples) = data["test"]

C9_Witness ==
    /\ pc = "done"
    /\ data["val"] >= 1
    /\ data["test"] >= 1

\* C10: the criterion's ignore_index is the PAD index of every target it is
\* applied to, so an all-PAD target of each such task has no position that
\* counts in the loss.
C10_IgnoreIndexIsTaskPad ==
    criterion.kind # "none" =>
        \A t \in CriterionTargets(task) :
            /\ criterion.ignore_index = vocabs[t]
            /\ CountedPositions(AllPadTarget(t, MaxSeqLen),
                                criterion.ignore_index) = 0

=============================================================================
